---- MODULE Spec2Model ----
(***************************************************************************)
(* Model of clean_drive_files.py: a run-to-completion script that restores *)
(* an MSAL token cache, acquires a token silently, downloads three Excel   *)
(* files from Microsoft Graph, concatenates them, drops duplicate and      *)
(* incomplete rows, writes the result locally and uploads it.              *)
(*                                                                         *)
(* The script is module-level code; pc is its position.  The identity      *)
(* provider, the Graph API and the content of the remote files are inputs: *)
(* each action draws the collaborator's answer from a small set.           *)
(***************************************************************************)
EXTENDS Integers, Sequences, FiniteSets, TLC

\* ------------------------------------------------------------------ bounds
\* Largest number of data rows in one downloaded workbook.
MaxRows == 1

\* --------------------------------------------------------------- constants
\* len(files_to_process)
NumFiles == 3
\* A missing cell (NaN).  Every other cell value is non-null.
Null == 0
\* Cell values a workbook may hold.
CellValues == {Null, 1}
\* Column names a workbook may have.
Cols == {"a", "b"}
\* Status codes the read endpoint answers with in the model.
GetStatuses == {200, 204, 404}
\* Status codes the write endpoint answers with in the model.
PutStatuses == {200, 201, 202, 403}
\* The logical names of files_to_process, in list order.
files_to_process == <<"file1.xlsx", "file2.xlsx", "file3.xlsx">>
cleaned_file_name == "combined_cleaned.xlsx"

\* ------------------------------------------------------------------ tables
\* A DataFrame: a set of column names and an ordered list of rows; a row has
\* an index label and one cell per column.
Keep(s, K) ==
    LET F[n \in 0..Len(s)] ==
            IF n = 0 THEN <<>>
            ELSE IF n \in K THEN Append(F[n - 1], s[n]) ELSE F[n - 1]
    IN  F[Len(s)]

RowSeqs(S) ==
    UNION {[1..n -> [S -> CellValues]] : n \in 0..MaxRows}

\* pd.read_excel(path): the sheet's header gives the columns, the data rows
\* get the default index 0..n-1.  A sheet with no header has no rows.
ReadExcelTables ==
    {[columns |-> S,
      rows |-> [k \in 1..Len(d) |-> [index |-> k - 1, data |-> d[k]]]] :
        <<S, d>> \in UNION {{<<S, d>> : d \in IF S = {} THEN {<<>>} ELSE RowSeqs(S)} :
                                S \in SUBSET Cols}}

EmptyTable == [columns |-> {}, rows |-> <<>>]

\* The body of a response: bytes that pd.read_excel can read as a table, or
\* bytes it raises on.
Bodies ==
    {[readable |-> TRUE, table |-> t] : t \in ReadExcelTables}
        \cup {[readable |-> FALSE, table |-> EmptyTable]}

RECURSIVE Flatten(_)
Flatten(ss) == IF ss = <<>> THEN <<>> ELSE Head(ss) \o Flatten(Tail(ss))

Reindex(rs) == [k \in 1..Len(rs) |-> [index |-> k - 1, data |-> rs[k].data]]

\* pd.concat(..., join="inner"): only the columns every input has are kept.
Concat_InnerJoin(dfs) ==
    LET allCols == {c \in Cols : \A k \in 1..Len(dfs) : c \in dfs[k].columns}
        Cut(df) == [j \in 1..Len(df.rows) |->
                       [index |-> df.rows[j].index,
                        data |-> [c \in allCols |-> df.rows[j].data[c]]]]
    IN  [columns |-> allCols,
         rows |-> Reindex(Flatten([k \in 1..Len(dfs) |-> Cut(dfs[k])]))]

\* pd.concat(dataframes, ignore_index=True): the columns are the union of the
\* inputs' columns, a row is padded with NaN in the columns its table lacks,
\* rows keep list order and the index is reset to 0..N-1.
Concat(dfs) ==
    LET allCols == UNION {dfs[k].columns : k \in 1..Len(dfs)}
        Pad(df) == [j \in 1..Len(df.rows) |->
                       [index |-> df.rows[j].index,
                        data |-> [c \in allCols |->
                                     IF c \in df.columns THEN df.rows[j].data[c]
                                     ELSE Null]]]
    IN  [columns |-> allCols,
         rows |-> Reindex(Flatten([k \in 1..Len(dfs) |-> Pad(dfs[k])]))]

\* A duplicate scan that stops at the first duplicate it removes: only the
\* first row that repeats an earlier one is dropped.
DropDuplicates_StopsAfterOne(t) ==
    LET dups == {k \in 1..Len(t.rows) :
                    \E j \in 1..(k - 1) : t.rows[j].data = t.rows[k].data}
        first == {k \in dups : \A m \in dups : k <= m}
    IN  [t EXCEPT !.rows = Keep(t.rows, (1..Len(t.rows)) \ first)]

\* DataFrame.drop_duplicates(): keep the first of the rows whose cells are all
\* equal (NaN equals NaN in the same position); index labels are kept.
DropDuplicates(t) ==
    [t EXCEPT !.rows =
        Keep(t.rows, {k \in 1..Len(t.rows) :
                        \A j \in 1..(k - 1) : t.rows[j].data # t.rows[k].data})]

\* dropna(how="all"): only the rows whose cells are all NaN are dropped.
DropNa_HowAll(t) ==
    [t EXCEPT !.rows =
        Keep(t.rows, {k \in 1..Len(t.rows) :
                        \E c \in t.columns : t.rows[k].data[c] # Null})]

\* DataFrame.dropna(): drop every row with a NaN in any column.
DropNa(t) ==
    [t EXCEPT !.rows =
        Keep(t.rows, {k \in 1..Len(t.rows) :
                        \A c \in t.columns : t.rows[k].data[c] # Null})]

\* combined_df.drop_duplicates().dropna()
Clean(t) == DropNa(DropDuplicates(t))

\* ------------------------------------------------------------------- state
VARIABLES
    pc,                 \* position in the script
    cacheFile,          \* token_cache.bin: "absent" or its content
    cacheFileAtStart,   \* token_cache.bin when the process started
    cache,              \* content of the in-memory SerializableTokenCache
    has_state_changed,  \* cache.has_state_changed
    accounts,           \* app.get_accounts() is non-empty
    result,             \* result of acquire_token_silent: "None" or a token
    token,              \* the token in headers: "unset" or a token
    dirExists,          \* DOWNLOAD_PATH exists
    dirCreated,         \* os.makedirs(DOWNLOAD_PATH) was called
    i,                  \* index of the file the download loop is at
    requests,           \* the outbound HTTP requests, in order, with answers
    written,            \* names of the files written under DOWNLOAD_PATH
    dataframes,         \* the list dataframes
    combined_df,        \* combined_df, EmptyTable until assigned
    cleaned_df,         \* cleaned_df, EmptyTable until assigned
    printed,            \* the messages printed so far (as a set of tags)
    ending,             \* how the script ended: "running", "exit", "completed", "uncaught"
    exitCode,           \* the process exit status, -1 while running
    saveRuns,           \* calls of save_cache
    fileWrites          \* writes of token_cache.bin

vars == <<pc, cacheFile, cacheFileAtStart, cache, has_state_changed, accounts,
          result, token, dirExists, dirCreated, i, requests, written,
          dataframes, combined_df, cleaned_df, printed, ending, exitCode,
          saveRuns, fileWrites>>

authVars == <<cache, has_state_changed, accounts, result, token>>
fsVars == <<dirExists, dirCreated, written>>
dataVars == <<dataframes, combined_df, cleaned_df>>
exitVars == <<ending, exitCode, saveRuns, fileWrites, cacheFile>>

\* The state when the interpreter starts the script: the cache file is absent,
\* holds no account, or holds an account; the download directory may exist.
Init ==
    /\ pc = "load_cache"
    /\ cacheFile \in {"absent", "empty", "account"}
    /\ cacheFileAtStart = cacheFile
    /\ cache = "empty"
    /\ has_state_changed = FALSE
    /\ accounts = FALSE
    /\ result = "None"
    /\ token = "unset"
    /\ dirExists \in BOOLEAN
    /\ dirCreated = FALSE
    /\ i = 0
    /\ requests = <<>>
    /\ written = {}
    /\ dataframes = <<>>
    /\ combined_df = EmptyTable
    /\ cleaned_df = EmptyTable
    /\ printed = {}
    /\ ending = "running"
    /\ exitCode = -1
    /\ saveRuns = 0
    /\ fileWrites = 0

\* A printed line: what it reports and the file it is about ("" if none).
Msg(tag, about) == <<tag, about>>

\* --------------------------------------------------------------------- exit
\* save_cache without the has_state_changed test: the file is always written.
save_cache_Unconditional ==
    /\ saveRuns' = saveRuns + 1
    /\ cacheFile' = cache
    /\ fileWrites' = fileWrites + 1

\* if cache.has_state_changed: write cache.serialize() to CACHE_FILE
save_cache ==
    /\ saveRuns' = saveRuns + 1
    /\ IF has_state_changed
       THEN /\ cacheFile' = cache
            /\ fileWrites' = fileWrites + 1
       ELSE UNCHANGED <<cacheFile, fileWrites>>

\* The interpreter ends: atexit.register(save_cache) makes it call save_cache
\* once, after exit(), after the end of the script and after an uncaught
\* exception alike.
Terminate(how, status) ==
    /\ pc' = "exited"
    /\ ending' = how
    /\ exitCode' = status
    /\ save_cache

\* exit(): SystemExit with no code; the process status is 0.
ExitCall == Terminate("exit", 0)

\* Falling off the end of the script: status 0.
FallOffEnd == Terminate("completed", 0)

\* An exception nobody catches: traceback, status 1.
UncaughtException == Terminate("uncaught", 1)

\* -------------------------------------------------------- session bootstrap
\* if os.path.exists(CACHE_FILE): cache.deserialize(...)
LoadCache ==
    /\ pc = "load_cache"
    /\ cache' = IF cacheFile = "absent" THEN "empty" ELSE cacheFile
    /\ has_state_changed' = FALSE
    /\ pc' = "get_accounts"
    /\ UNCHANGED <<accounts, result, token, i, requests, printed, cacheFileAtStart>>
    /\ UNCHANGED <<fsVars, dataVars, exitVars>>

\* accounts = app.get_accounts(); if accounts: ...
AccountFound ==
    /\ pc = "get_accounts"
    /\ cache # "empty"
    /\ accounts' = TRUE
    /\ printed' = printed \cup {Msg("account_found", "")}
    /\ pc' = "acquire_token_silent"
    /\ UNCHANGED <<cache, has_state_changed, result, token, i, requests, cacheFileAtStart>>
    /\ UNCHANGED <<fsVars, dataVars, exitVars>>

\* else: print error; exit()
NoAccountExit ==
    /\ pc = "get_accounts"
    /\ cache = "empty"
    /\ accounts' = FALSE
    /\ printed' = printed \cup {Msg("error_no_account", "")}
    /\ ExitCall
    /\ UNCHANGED <<cache, has_state_changed, result, token, i, requests, cacheFileAtStart>>
    /\ UNCHANGED <<fsVars, dataVars>>

\* What app.acquire_token_silent can do: return the cached access token,
\* redeem the refresh token (the cache gains the new tokens), or return None,
\* with or without having removed expired entries from the cache.
SilentOutcomes ==
    {[result |-> "cached_token", cache |-> "account", changed |-> FALSE],
     [result |-> "fresh_token", cache |-> "refreshed", changed |-> TRUE],
     [result |-> "None", cache |-> "account", changed |-> FALSE],
     [result |-> "None", cache |-> "pruned", changed |-> TRUE]}

\* result = app.acquire_token_silent(scopes=SCOPE, account=accounts[0])
AcquireTokenSilent ==
    /\ pc = "acquire_token_silent"
    /\ \E o \in SilentOutcomes :
         /\ result' = o.result
         /\ cache' = o.cache
         /\ has_state_changed' = (has_state_changed \/ o.changed)
    /\ pc' = "check_result"
    /\ UNCHANGED <<accounts, token, i, requests, printed, cacheFileAtStart>>
    /\ UNCHANGED <<fsVars, dataVars, exitVars>>

\* The error is printed but the exit() is missing: the script goes on.
NoResultExit_NoExit ==
    /\ pc = "check_result"
    /\ result = "None"
    /\ printed' = printed \cup {Msg("error_no_token", "")}
    /\ pc' = "make_dir"
    /\ UNCHANGED <<authVars, i, requests, cacheFileAtStart>>
    /\ UNCHANGED <<fsVars, dataVars, exitVars>>

\* if not result: print error; exit()
NoResultExit ==
    /\ pc = "check_result"
    /\ result = "None"
    /\ printed' = printed \cup {Msg("error_no_token", "")}
    /\ ExitCall
    /\ UNCHANGED <<authVars, i, requests, cacheFileAtStart>>
    /\ UNCHANGED <<fsVars, dataVars>>

\* token = result["access_token"]; headers = {'Authorization': f'Bearer {token}'}
ExtractToken ==
    /\ pc = "check_result"
    /\ result # "None"
    /\ token' = result
    /\ printed' = printed \cup {Msg("auth_ok", "")}
    /\ pc' = "make_dir"
    /\ UNCHANGED <<cache, has_state_changed, accounts, result, i, requests, cacheFileAtStart>>
    /\ UNCHANGED <<fsVars, dataVars, exitVars>>

\* ------------------------------------------------------------------ fetcher
\* if not os.path.exists(DOWNLOAD_PATH): os.makedirs(DOWNLOAD_PATH)
\* and the download loop starts at the first entry of files_to_process.
MakeDownloadDir ==
    /\ pc = "make_dir"
    /\ dirExists' = TRUE
    /\ dirCreated' = ~dirExists
    /\ i' = 1
    /\ pc' = "download"
    /\ UNCHANGED <<authVars, requests, written, printed, cacheFileAtStart>>
    /\ UNCHANGED <<dataVars, exitVars>>

\* A request as the server sees it, with the answer it got: the Authorization
\* header is built from headers, which holds token.
Request(method, target, status, body) ==
    [method |-> method, target |-> target, token |-> token,
     status |-> status, body |-> body]

NoBody == [readable |-> FALSE, table |-> EmptyTable]

\* if response.status_code != 200
DownloadRejected(status) == status # 200

\* "break" in place of "continue": the first refused download ends the loop.
DownloadFailed_Breaks ==
    /\ pc = "download"
    /\ i <= NumFiles
    /\ \E s \in GetStatuses :
         /\ DownloadRejected(s)
         /\ requests' = Append(requests, Request("GET", files_to_process[i], s, NoBody))
    /\ printed' = printed \cup {Msg("error_download", files_to_process[i])}
    /\ i' = NumFiles + 1
    /\ UNCHANGED <<pc, authVars, cacheFileAtStart>>
    /\ UNCHANGED <<fsVars, dataVars, exitVars>>

\* response = requests.get(file_url, headers=headers)
\* if response.status_code != 200: print error; continue
DownloadFailed ==
    /\ pc = "download"
    /\ i <= NumFiles
    /\ \E s \in GetStatuses :
         /\ DownloadRejected(s)
         /\ requests' = Append(requests, Request("GET", files_to_process[i], s, NoBody))
    /\ printed' = printed \cup {Msg("error_download", files_to_process[i])}
    /\ i' = i + 1
    /\ UNCHANGED <<pc, authVars, cacheFileAtStart>>
    /\ UNCHANGED <<fsVars, dataVars, exitVars>>

\* A status that passes the check: the bytes are written to downloads/<name>,
\* read with pd.read_excel and the DataFrame is appended to dataframes.
DownloadOk ==
    /\ pc = "download"
    /\ i <= NumFiles
    /\ \E s \in GetStatuses, b \in Bodies :
         /\ ~DownloadRejected(s)
         /\ b.readable
         /\ requests' = Append(requests, Request("GET", files_to_process[i], s, b))
         /\ dataframes' = Append(dataframes, b.table)
    /\ written' = written \cup {files_to_process[i]}
    /\ i' = i + 1
    /\ UNCHANGED <<pc, authVars, dirExists, dirCreated, combined_df, cleaned_df,
                   printed, cacheFileAtStart>>
    /\ UNCHANGED exitVars

\* A status that passes the check with bytes pd.read_excel raises on: the
\* bytes are written, the exception is not caught and ends the run.
DownloadUnreadable ==
    /\ pc = "download"
    /\ i <= NumFiles
    /\ \E s \in GetStatuses, b \in Bodies :
         /\ ~DownloadRejected(s)
         /\ ~b.readable
         /\ requests' = Append(requests, Request("GET", files_to_process[i], s, b))
    /\ written' = written \cup {files_to_process[i]}
    /\ UncaughtException
    /\ UNCHANGED <<authVars, dirExists, dirCreated, i, printed, cacheFileAtStart>>
    /\ UNCHANGED dataVars

\* "if dataframes is not None": the branch is taken with an empty list too.
LoopDoneWithData_AlwaysTaken ==
    /\ pc = "download"
    /\ i > NumFiles
    /\ pc' = "concat"
    /\ UNCHANGED <<authVars, i, requests, printed, cacheFileAtStart>>
    /\ UNCHANGED <<fsVars, dataVars, exitVars>>

\* The loop is over; if dataframes: ...
LoopDoneWithData ==
    /\ pc = "download"
    /\ i > NumFiles
    /\ dataframes # <<>>
    /\ pc' = "concat"
    /\ UNCHANGED <<authVars, i, requests, printed, cacheFileAtStart>>
    /\ UNCHANGED <<fsVars, dataVars, exitVars>>

\* else: print("No se descargaron archivos ...")
LoopDoneNoData ==
    /\ pc = "download"
    /\ i > NumFiles
    /\ dataframes = <<>>
    /\ printed' = printed \cup {Msg("warn_no_data", "")}
    /\ FallOffEnd
    /\ UNCHANGED <<authVars, i, requests, cacheFileAtStart>>
    /\ UNCHANGED <<fsVars, dataVars>>

\* ----------------------------------------------------------- merger/cleaner
\* combined_df = pd.concat(dataframes, ignore_index=True)
ConcatStep ==
    /\ pc = "concat"
    /\ combined_df' = Concat(dataframes)
    /\ pc' = "clean"
    /\ UNCHANGED <<authVars, i, requests, printed, dataframes, cleaned_df, cacheFileAtStart>>
    /\ UNCHANGED <<fsVars, exitVars>>

\* cleaned_df = combined_df.drop_duplicates().dropna()
CleanStep ==
    /\ pc = "clean"
    /\ cleaned_df' = Clean(combined_df)
    /\ pc' = "to_excel"
    /\ UNCHANGED <<authVars, i, requests, printed, dataframes, combined_df, cacheFileAtStart>>
    /\ UNCHANGED <<fsVars, exitVars>>

\* ---------------------------------------------------------------- publisher
\* cleaned_df.to_excel(cleaned_file_path, index=False)
ToExcel ==
    /\ pc = "to_excel"
    /\ written' = written \cup {cleaned_file_name}
    /\ pc' = "upload"
    /\ UNCHANGED <<authVars, i, requests, printed, dirExists, dirCreated, cacheFileAtStart>>
    /\ UNCHANGED <<dataVars, exitVars>>

\* "== 200" in place of "in [200, 201]"
UploadAccepted_Only200(status) == status = 200

\* if upload_response.status_code in [200, 201]
UploadAccepted(status) == status \in {200, 201}

\* A rejected upload that is tried again: the script stays at the upload.
UploadRejected_Retries ==
    /\ pc = "upload"
    /\ Len(requests) <= NumFiles + 1
    /\ \E s \in PutStatuses :
         /\ ~UploadAccepted(s)
         /\ requests' = Append(requests,
                Request("PUT", cleaned_file_name, s, [readable |-> TRUE, table |-> cleaned_df]))
    /\ printed' = printed \cup {Msg("error_upload", "")}
    /\ UNCHANGED <<pc, authVars, i, cacheFileAtStart>>
    /\ UNCHANGED <<fsVars, dataVars, exitVars>>

\* upload_response = requests.put(upload_url, headers=headers, data=f)
\* answered with a status the check accepts: print success.
UploadSucceeded ==
    /\ pc = "upload"
    /\ \E s \in PutStatuses :
         /\ UploadAccepted(s)
         /\ requests' = Append(requests,
                Request("PUT", cleaned_file_name, s, [readable |-> TRUE, table |-> cleaned_df]))
    /\ printed' = printed \cup {Msg("upload_ok", "")}
    /\ FallOffEnd
    /\ UNCHANGED <<authVars, i, cacheFileAtStart>>
    /\ UNCHANGED <<fsVars, dataVars>>

\* answered with any other status: print the status and the response text.
UploadRejected ==
    /\ pc = "upload"
    /\ \E s \in PutStatuses :
         /\ ~UploadAccepted(s)
         /\ requests' = Append(requests,
                Request("PUT", cleaned_file_name, s, [readable |-> TRUE, table |-> cleaned_df]))
    /\ printed' = printed \cup {Msg("error_upload", "")}
    /\ FallOffEnd
    /\ UNCHANGED <<authVars, i, cacheFileAtStart>>
    /\ UNCHANGED <<fsVars, dataVars>>

Next ==
    \/ LoadCache
    \/ AccountFound
    \/ NoAccountExit
    \/ AcquireTokenSilent
    \/ NoResultExit
    \/ ExtractToken
    \/ MakeDownloadDir
    \/ DownloadFailed
    \/ DownloadOk
    \/ DownloadUnreadable
    \/ LoopDoneWithData
    \/ LoopDoneNoData
    \/ ConcatStep
    \/ CleanStep
    \/ ToExcel
    \/ UploadSucceeded
    \/ UploadRejected

Spec == Init /\ [][Next]_vars

\* ================================================================== claims
Gets == SelectSeq(requests, LAMBDA r : r.method = "GET")
Puts == SelectSeq(requests, LAMBDA r : r.method = "PUT")

\* The HTTP success status class.
Is2xx(status) == status \in 200..299

\* The cache yielded no account, or an account whose silent refresh returned
\* no result.
NoAccount == pc \notin {"load_cache", "get_accounts"} /\ ~accounts
NoResult ==
    /\ pc \notin {"load_cache", "get_accounts", "acquire_token_silent"}
    /\ accounts
    /\ result = "None"
AuthFailed == NoAccount \/ NoResult

\* The run got its token.
Authenticated == token # "unset"

\* C1: once authentication has failed (no account in the cache, or the silent
\* refresh returned nothing) the script can only exit: it never passes the
\* result check, no GET and no PUT has been or is issued, nothing is written
\* under the download directory and the directory is not created.
C1_AuthShortCircuit ==
    AuthFailed =>
        /\ pc \in {"check_result", "exited"}
        /\ ~ENABLED ExtractToken
        /\ pc = "exited" => ending = "exit"
        /\ requests = <<>>
        /\ ~dirCreated
        /\ written = {}
        /\ token = "unset"

C1_Witness ==
    /\ pc = "exited"
    /\ NoResult
    /\ cacheFileAtStart = "account"
    /\ ~dirExists

\* C2: a run whose authentication failed ends with a status other than the
\* status 0 of a run that completes normally.
C2_AuthFailureExitsNonZero ==
    (pc = "exited" /\ AuthFailed) => exitCode # 0

\* C4: when all three downloads were refused, dataframes is empty, nothing is
\* combined or cleaned, combined_cleaned.xlsx is not written, no PUT is
\* issued, and the run ends by falling off the end of the script with the
\* "no data" notice, not as an error.
AllDownloadsFailed ==
    LET gets == Gets IN
    /\ Len(gets) = NumFiles
    /\ \A k \in 1..NumFiles : gets[k].status # 200

C4_AllDownloadsFail ==
    AllDownloadsFailed =>
        /\ dataframes = <<>>
        /\ combined_df = EmptyTable
        /\ cleaned_df = EmptyTable
        /\ cleaned_file_name \notin written
        /\ written = {}
        /\ Puts = <<>>
        /\ pc \in {"download", "exited"}
        /\ pc = "exited" =>
              /\ ending = "completed"
              /\ exitCode = 0
              /\ Msg("warn_no_data", "") \in printed

C4_Witness ==
    /\ pc = "exited"
    /\ AllDownloadsFailed
    /\ \E k \in 1..NumFiles : ~Is2xx(Gets[k].status)

\* C5 as stated: the upload is reported as a success exactly when the status
\* of the PUT is in the 2xx class.
C5_SuccessIffAny2xx ==
    Puts # <<>> =>
        (Msg("upload_ok", "") \in printed <=> Is2xx(Puts[1].status))

\* C5 as amended: the upload is reported as a success exactly when the status
\* of the PUT is 200 or 201; any other status, 2xx or not, is reported as an
\* error; either way the run falls off the end of the script.
C5_SuccessIff200Or201 ==
    Puts # <<>> =>
        /\ Msg("upload_ok", "") \in printed <=> Puts[1].status \in {200, 201}
        /\ Msg("error_upload", "") \in printed <=> Puts[1].status \notin {200, 201}
        /\ pc = "exited"
        /\ ending = "completed"
        /\ exitCode = 0

C5_Witness ==
    /\ Puts # <<>>
    /\ Puts[1].status = 202
    /\ Msg("error_upload", "") \in printed
    /\ pc = "exited"

\* C8: save_cache runs exactly once, when the process ends, on every way out;
\* it rewrites token_cache.bin with the in-memory cache if and only if the
\* in-memory cache differs from what was loaded, and otherwise leaves the
\* file as it was at start (absent stays absent).
LoadedCache == IF cacheFileAtStart = "absent" THEN "empty" ELSE cacheFileAtStart
CacheDiffers == pc # "load_cache" /\ cache # LoadedCache

C8_SaveOnExit ==
    /\ pc # "exited" =>
          /\ saveRuns = 0
          /\ fileWrites = 0
          /\ cacheFile = cacheFileAtStart
    /\ pc = "exited" =>
          /\ saveRuns = 1
          /\ fileWrites = (IF CacheDiffers THEN 1 ELSE 0)
          /\ CacheDiffers => cacheFile = cache
          /\ ~CacheDiffers => cacheFile = cacheFileAtStart

C8_Witness ==
    /\ pc = "exited"
    /\ ending = "exit"
    /\ cacheFileAtStart = "account"
    /\ cacheFile = "pruned"
    /\ fileWrites = 1

\* ------------------------------------------------------ claims on the tables
\* The states right after combined_df, and right after cleaned_df, is
\* assigned; neither is assigned again.
Combined == pc = "clean"
Cleaned == pc = "to_excel"

TablesOf(rs) == [k \in 1..Len(rs) |-> rs[k].body.table]

RECURSIVE RowsBefore(_, _)
RowsBefore(dfs, k) ==
    IF k <= 1 THEN 0 ELSE RowsBefore(dfs, k - 1) + Len(dfs[k - 1].rows)

\* t holds exactly the rows of dfs, table after table and row after row, each
\* with its own cells and the index its position gives it.
IsConcatenationOf(t, dfs) ==
    /\ Len(t.rows) = RowsBefore(dfs, Len(dfs) + 1)
    /\ \A k \in 1..Len(dfs) : \A j \in 1..Len(dfs[k].rows) :
         LET at == RowsBefore(dfs, k) + j IN
         /\ t.rows[at].index = at - 1
         /\ \A c \in dfs[k].columns : t.rows[at].data[c] = dfs[k].rows[j].data[c]

\* C3 as stated: a download answered with a status outside the 2xx class is
\* logged and skipped without ending the batch, every later file is still
\* requested, every download answered with a 2xx status adds one dataset, and
\* the combined table is the concatenation of those datasets in list order.
C3_PartialDownloadResilience ==
    /\ \A k \in 1..Len(Gets) :
         ~Is2xx(Gets[k].status) => Msg("error_download", Gets[k].target) \in printed
    /\ (pc = "exited" /\ Authenticated) => Len(Gets) = NumFiles
    /\ dataframes = TablesOf(SelectSeq(Gets, LAMBDA r : Is2xx(r.status)))
    /\ Combined => IsConcatenationOf(combined_df, dataframes)

\* C3 as amended: a download answered with any status other than 200 (other
\* 2xx statuses included) is logged and skipped without ending the batch and
\* the next file is requested; a download answered with 200 whose body reads
\* as a workbook adds one dataset; only a 200 body that does not read ends the
\* run early; the combined table is the concatenation, in list order, of the
\* datasets of the 200 answers.
C3_PartialDownloadResilience200 ==
    LET gets == Gets IN
    /\ \A k \in 1..Len(gets) :
         /\ gets[k].target = files_to_process[k]
         /\ gets[k].status # 200 => Msg("error_download", gets[k].target) \in printed
         /\ (gets[k].status = 200 /\ gets[k].body.readable) =>
                Msg("error_download", gets[k].target) \notin printed
    /\ (pc = "exited" /\ Authenticated /\ ending # "uncaught") => Len(gets) = NumFiles
    /\ ending = "uncaught" =>
          /\ gets[Len(gets)].status = 200
          /\ ~gets[Len(gets)].body.readable
    /\ dataframes =
          TablesOf(SelectSeq(gets, LAMBDA r : r.status = 200 /\ r.body.readable))
    /\ Combined => IsConcatenationOf(combined_df, dataframes)

C3_Witness ==
    /\ Combined
    /\ Gets[1].status = 200 /\ Len(Gets[1].body.table.rows) = 1
    /\ Gets[2].status = 404
    /\ Gets[3].status = 200 /\ Len(Gets[3].body.table.rows) = 1
    /\ Gets[1].body.table.rows[1].data # Gets[3].body.table.rows[1].data
    /\ Len(combined_df.rows) = 2

\* C6: cleaning a cleaned table changes nothing: Clean(Clean(t)) = Clean(t)
\* for the combined table t, and for cleaned_df itself.
C6_CleanIdempotent ==
    /\ Combined => Clean(Clean(combined_df)) = Clean(combined_df)
    /\ Cleaned => Clean(cleaned_df) = cleaned_df

\* The combined table has a repeated complete row, a row with a missing value
\* and a repeated row with a missing value.
C6_Witness ==
    /\ Cleaned
    /\ cleaned_df # combined_df
    /\ \E p, q \in 1..Len(combined_df.rows) :
         /\ p < q
         /\ combined_df.rows[p].data = combined_df.rows[q].data
         /\ \E c \in combined_df.columns : combined_df.rows[p].data[c] = Null
    /\ cleaned_df.rows # <<>>

\* x is a copy of y with a missing value where y has a value: the two rows
\* share a value in some column and differ only where x has none.
NullCopyOf(x, y) ==
    /\ \E c \in DOMAIN x : x[c] = Null /\ y[c] # Null
    /\ \E c \in DOMAIN x : x[c] # Null /\ x[c] = y[c]
    /\ \A c \in DOMAIN x : x[c] = y[c] \/ (x[c] = Null /\ y[c] # Null)

Complete(x) == \A c \in DOMAIN x : x[c] # Null
KeptIndexes == {cleaned_df.rows[k].index : k \in 1..Len(cleaned_df.rows)}

\* C7 as stated: of two copies of a row, one with a missing value where the
\* other has a value, exactly one is kept, and it is the one that comes first
\* in the combined table.
C7_FirstCopySurvives ==
    Cleaned =>
        \A p, q \in 1..Len(combined_df.rows) :
            (/\ p < q
             /\ \/ NullCopyOf(combined_df.rows[p].data, combined_df.rows[q].data)
                \/ NullCopyOf(combined_df.rows[q].data, combined_df.rows[p].data))
            => /\ combined_df.rows[p].index \in KeptIndexes
               /\ combined_df.rows[q].index \notin KeptIndexes

\* C7 as amended: of two such copies the one with the missing value is never
\* kept, wherever it stands; the other one, when it has no missing value, is
\* kept exactly once, at its first occurrence in the combined table.
C7_CompleteCopySurvives ==
    Cleaned =>
        \A p, q \in 1..Len(combined_df.rows) :
            NullCopyOf(combined_df.rows[p].data, combined_df.rows[q].data) =>
                /\ combined_df.rows[p].index \notin KeptIndexes
                /\ Complete(combined_df.rows[q].data) =>
                      LET same == {k \in 1..Len(combined_df.rows) :
                                     combined_df.rows[k].data = combined_df.rows[q].data}
                          kept == {k \in 1..Len(cleaned_df.rows) :
                                     cleaned_df.rows[k].data = combined_df.rows[q].data}
                      IN  /\ Cardinality(kept) = 1
                          /\ \A k \in kept : \A m \in same :
                                cleaned_df.rows[k].index <= combined_df.rows[m].index

\* The copy with the missing value comes first and the complete copy, which
\* comes later, is the one kept.
C7_Witness ==
    /\ Cleaned
    /\ Len(combined_df.rows) >= 2
    /\ NullCopyOf(combined_df.rows[1].data, combined_df.rows[2].data)
    /\ Complete(combined_df.rows[2].data)
    /\ KeptIndexes = {1}

\* Some column of the combined table is missing from some downloaded table.
SchemasDiffer ==
    \E k \in 1..Len(dataframes) : dataframes[k].columns # combined_df.columns

\* C9 as stated: when a column is present in only some of the downloaded
\* tables, the tables that lack it are padded with missing values and the
\* cleaned table has no rows.  (Stated here for downloads that all have rows,
\* where the padding does take place.)
C9_MismatchEmptiesTable ==
    (/\ Cleaned
     /\ SchemasDiffer
     /\ \A k \in 1..Len(dataframes) : dataframes[k].rows # <<>>) =>
        /\ \A k \in 1..Len(dataframes) : dataframes[k].columns \subseteq combined_df.columns
        /\ cleaned_df.rows = <<>>

\* C9 as amended: every row of a downloaded table that lacks a column of the
\* combined table is padded with a missing value there and is not kept; the
\* cleaned table has no rows when every downloaded table lacks some column;
\* the complete rows of a table that has every column are kept.
C9_MismatchDropsPaddedRows ==
    Cleaned =>
        /\ \A k \in 1..Len(dataframes) :
             /\ dataframes[k].columns \subseteq combined_df.columns
             /\ \A j \in 1..Len(dataframes[k].rows) :
                  LET at == RowsBefore(dataframes, k) + j IN
                  /\ \A c \in combined_df.columns \ dataframes[k].columns :
                        combined_df.rows[at].data[c] = Null
                  /\ dataframes[k].columns # combined_df.columns =>
                        combined_df.rows[at].index \notin KeptIndexes
                  /\ (/\ dataframes[k].columns = combined_df.columns
                      /\ Complete(dataframes[k].rows[j].data)) =>
                        \E m \in 1..Len(cleaned_df.rows) :
                            cleaned_df.rows[m].data = dataframes[k].rows[j].data
        /\ (\A k \in 1..Len(dataframes) : dataframes[k].columns # combined_df.columns)
              => cleaned_df.rows = <<>>

\* One table has every column and a complete row, another lacks a column: the
\* first one's row is kept, the other's is not.
C9_Witness ==
    /\ Cleaned
    /\ Len(dataframes) = 2
    /\ dataframes[1].columns = {"a"} /\ Len(dataframes[1].rows) = 1
    /\ dataframes[1].rows[1].data["a"] # Null
    /\ dataframes[2].columns = {"a", "b"} /\ Len(dataframes[2].rows) = 1
    /\ Complete(dataframes[2].rows[1].data)
    /\ KeptIndexes = {1}

\* ----------------------------------------------- claims on the request order
\* The requests issued so far are the first ones of: GET file1, GET file2,
\* GET file3, PUT combined_cleaned.xlsx, each once, each with the token taken
\* from result; a PUT comes only after the three GETs and after the cleaned
\* file was written.
ForwardOnly ==
    /\ Len(requests) <= NumFiles + 1
    /\ \A k \in 1..Len(requests) :
         /\ k <= NumFiles =>
               requests[k].method = "GET" /\ requests[k].target = files_to_process[k]
         /\ k = NumFiles + 1 =>
               requests[k].method = "PUT" /\ requests[k].target = cleaned_file_name
         /\ requests[k].token = result
         /\ requests[k].token \notin {"None", "unset"}
    /\ Authenticated => token = result
    /\ Puts # <<>> => (Len(Gets) = NumFiles /\ cleaned_file_name \in written)

\* C10 as stated: every authenticated run issues exactly one GET per file, in
\* list order, then at most one PUT, nothing twice, all with the one token.
C10_RequestSequence ==
    /\ ForwardOnly
    /\ (pc = "exited" /\ Authenticated) => Len(Gets) = NumFiles

\* C10 as amended: every authenticated run that no uncaught error ends issues
\* exactly one GET per file, in list order, then at most one PUT, nothing
\* twice, all with the one token; a run ended by an uncaught error has issued
\* the first ones of these requests and no PUT.
C10_RequestSequenceUnlessAborted ==
    /\ ForwardOnly
    /\ (pc = "exited" /\ Authenticated /\ ending = "completed") => Len(Gets) = NumFiles
    /\ (pc = "exited" /\ Authenticated) => ending \in {"completed", "uncaught"}
    /\ ending = "uncaught" => (Puts = <<>> /\ Len(Gets) \in 1..NumFiles)

C10_Witness ==
    /\ pc = "exited"
    /\ Len(requests) = NumFiles + 1
    /\ requests[2].status = 404
    /\ requests[NumFiles + 1].status = 403
    /\ token = "fresh_token"

====
